---- MODULE Spec2Model ----
(***************************************************************************)
(* Model of mediaflow_proxy/main.py: the URL generation endpoints          *)
(* (generate_url, its deprecated alias, generate_urls with its gather      *)
(* fan-out) and the request pipeline of the application (the middleware    *)
(* stack in registration order, the route table, the verify_api_key        *)
(* dependency of the included routers).                                    *)
(*                                                                         *)
(* Two specifications share the module: SpecGen runs one generation        *)
(* request, SpecReq runs one inbound request through the middleware stack. *)
(***************************************************************************)
EXTENDS Integers, Sequences, FiniteSets, TLC

VARIABLES
    \* ---- generation endpoints
    request,      \* the parsed request body (GenerateUrlRequest / GenerateMultiUrlRequest)
    heap,         \* the dict objects: heap[id] is the content of dict object id
    gpc,          \* position of the generation call
    validated,    \* validated[i]: item i passed the request-body validation
    task,         \* task[i]: state of the coroutine of item i handed to asyncio.gather
    taskResult,   \* taskResult[i]: what the coroutine of item i returned
    encArgs,      \* encArgs[i]: the arguments item i passed to encode_mediaflow_proxy_url
    outer,        \* the future returned by asyncio.gather
    nonce,        \* number of nonces the encryption handlers have drawn
    inner,        \* what the inner generate_url call returned to the deprecated alias
    ready,        \* the event loop's queue of ready callbacks, run first in first out
    todo,         \* the callbacks left to run in the loop's current iteration
    nfinished,    \* gather: the children whose done-callback has run
    cancelRequested,   \* gather: _cancel_requested of the outer future
    mustCancel,   \* mustCancel[i]: the task of item i is marked to be cancelled
    handlerMustCancel, \* the task of generate_urls is marked to be cancelled
    cancelSent,   \* a cancellation of the call has been requested
    response,     \* what the endpoint answered
    request0,     \* request and heap as they were when the call started (history)
    heap0,
    \* ---- request pipeline
    settings,     \* settings.api_password
    req,          \* the inbound request: method, scope path, host, credentials, token
    stage,        \* the middleware / routing layer that holds the request
    normIn,       \* the path NormalizePathMiddleware received
    routed,       \* scope["path"] as the router below the middlewares gets it
    decoded,      \* EncryptionMiddleware has decoded the embedded token
    verified,     \* outcome of verify_api_key for this request
    handled,      \* the path a route handler was dispatched with
    reply,        \* the response: status and Location
    hops          \* redirects the client has followed

loopVars == <<ready, todo, nfinished, cancelRequested, mustCancel, handlerMustCancel, cancelSent>>
genVars == <<request, heap, gpc, validated, task, taskResult, encArgs, outer,
             nonce, inner, loopVars, response, request0, heap0>>
reqVars == <<settings, req, stage, normIn, routed, decoded, verified, handled, reply, hops>>
vars == <<genVars, reqVars>>

\* ------------------------------------------------------------------ bounds

\* Largest number of items of a batch request.
MaxItems == 2
\* Largest number of pieces a request path is built from.
MaxPieces == 4
\* Largest number of redirects the client follows.
MaxHops == 2

\* ------------------------------------------------------------- Python values

NoneV == "None"
Absent == "<absent>"

\* Python truthiness of an Optional[str].
Truthy(x) == x /= NoneV /\ x /= ""

\* ------------------------------------------------------- generation: data

ApiPasswordKey == "api_password"
ParamKeys == {ApiPasswordKey, "k"}
\* A value the encoder cannot serialise.
Unencodable == "<unencodable>"

\* A dict of query parameters: Absent marks a key the dict does not hold.
Dict(ap, k) == [x \in ParamKeys |-> IF x = ApiPasswordKey THEN ap ELSE k]
EmptyDict == Dict(Absent, Absent)
QueryParams == { EmptyDict, Dict("", Absent), Dict("other", "v"), Dict("pw", Absent),
                 Dict(Absent, Unencodable) }

GoodEndpoint == "/proxy/stream"
GoodUrl == "https://example.com/v.mp4"
BadUrl == "not a url"
\* (endpoint, destination_url) of an item: both valid, or one of them invalid.
Targets == { <<GoodEndpoint, GoodUrl>>, <<GoodEndpoint, BadUrl>>, <<NoneV, GoodUrl>> }

Passwords == {NoneV, "", "pw"}
Ips == {NoneV, "1.2.3.4"}
ProxyUrl == "http://proxy:8888"
Expiration == "3600"

\* Item i of a request names its query_params dict by the object id i.
Item(t, i) == [endpoint |-> t[1], destination_url |-> t[2], query_params |-> i,
               request_headers |-> "rh", response_headers |-> "sh", filename |-> NoneV]

\* GenerateUrlRequest carries the fields of one item beside the shared ones; it is
\* held as a request with exactly one item.
Kinds == {"generate_url", "generate_encrypted_or_encoded_url", "generate_urls"}
ItemCounts(kind) == IF kind = "generate_urls" THEN 0..MaxItems ELSE {1}

NoArgs == [mediaflow_proxy_url |-> NoneV, endpoint |-> NoneV, destination_url |-> NoneV,
           query_params |-> EmptyDict, qp_object |-> 0,
           request_headers |-> NoneV, response_headers |-> NoneV,
           encryption_handler |-> NoneV, expiration |-> NoneV, ip |-> NoneV,
           filename |-> NoneV]
NoUrl == [base |-> NoneV, endpoint |-> NoneV, destination_url |-> NoneV,
          query_params |-> EmptyDict, request_headers |-> NoneV,
          response_headers |-> NoneV, sealed |-> FALSE, key |-> NoneV, nonce |-> 0,
          expiration |-> NoneV, ip |-> NoneV, filename |-> NoneV]
NoResponse == [status |-> "none", key |-> "-", value |-> <<>>]

\* ------------------------------------------------- generation: collaborators

\* Request-body validation at the boundary: destination_url and endpoint of an item.
ValidItem(it) == it.endpoint = GoodEndpoint /\ it.destination_url = GoodUrl

\* EncryptionHandler(password): the key is derived from the password alone.
EncryptionHandler(password) == password

\* encode_mediaflow_proxy_url raises on parameters it cannot serialise.
Encodable(a) == \A x \in ParamKeys : a.query_params[x] /= Unencodable

\* encode_mediaflow_proxy_url: the proxy URL carrying the payload; with an encryption
\* handler the payload is sealed under the handler's key with the fresh nonce n.
encode_mediaflow_proxy_url(a, n) ==
    [base |-> a.mediaflow_proxy_url, endpoint |-> a.endpoint,
     destination_url |-> a.destination_url, query_params |-> a.query_params,
     request_headers |-> a.request_headers, response_headers |-> a.response_headers,
     sealed |-> a.encryption_handler /= NoneV, key |-> a.encryption_handler,
     nonce |-> IF a.encryption_handler /= NoneV THEN n ELSE 0,
     expiration |-> a.expiration, ip |-> a.ip, filename |-> a.filename]

\* Nonces drawn by one encode call.
NonceUse(a) == IF a.encryption_handler /= NoneV THEN 1 ELSE 0

\* ---------------------------------------------------- generation: handlers

\* Variant without the copy: query_params names the caller's own dict.
query_params_alias(ref, fresh) == ref
\* The dict object the name query_params is bound to after
\* `query_params = <item>.query_params.copy()`: a fresh object.
query_params_copy(ref, fresh) == fresh

ip_str(rq) == IF Truthy(rq.ip) THEN rq.ip ELSE NoneV
encryption_handler(rq) ==
    IF Truthy(rq.api_password) THEN EncryptionHandler(rq.api_password) ELSE NoneV

\* The id of the object a copy of item i's query_params allocates.
Fresh(rq, i) == Len(rq.urls) + i

\* generate_url, lines 118-120: the heap after the copy and the injection.
generate_url_query_params(h, rq) ==
    LET ref == rq.urls[1].query_params
        w == query_params_copy(ref, Fresh(rq, 1))
        h1 == [h EXCEPT ![w] = h[ref]]
    IN  IF h1[w][ApiPasswordKey] = Absent /\ Truthy(rq.api_password)
        THEN [h1 EXCEPT ![w][ApiPasswordKey] = rq.api_password]
        ELSE h1

\* generate_url, lines 116, 122, 124-135: the keyword arguments of the encode call,
\* h being the heap after the injection.
generate_url_args(h, rq) ==
    LET it == rq.urls[1]
        w == query_params_copy(it.query_params, Fresh(rq, 1))
    IN  [mediaflow_proxy_url |-> rq.mediaflow_proxy_url, endpoint |-> it.endpoint,
         destination_url |-> it.destination_url, query_params |-> h[w], qp_object |-> w,
         request_headers |-> it.request_headers, response_headers |-> it.response_headers,
         encryption_handler |-> encryption_handler(rq), expiration |-> rq.expiration,
         ip |-> ip_str(rq), filename |-> it.filename]

\* Variant of lines 152-153 without the membership test: the shared password
\* overwrites a value the item set.
process_url_item_overwrite(h, rq, i) ==
    LET ref == rq.urls[i].query_params
        w == query_params_copy(ref, Fresh(rq, i))
        h1 == [h EXCEPT ![w] = h[ref]]
    IN  IF Truthy(rq.api_password)
        THEN [h1 EXCEPT ![w][ApiPasswordKey] = rq.api_password]
        ELSE h1
\* _process_url_item, lines 151-153: the heap after the copy and the injection.
process_url_item_query_params(h, rq, i) ==
    LET ref == rq.urls[i].query_params
        w == query_params_copy(ref, Fresh(rq, i))
        h1 == [h EXCEPT ![w] = h[ref]]
    IN  IF h1[w][ApiPasswordKey] = Absent /\ Truthy(rq.api_password)
        THEN [h1 EXCEPT ![w][ApiPasswordKey] = rq.api_password]
        ELSE h1

\* _process_url_item, lines 155-166: the keyword arguments of the encode call; the
\* shared fields come from the enclosing request, the rest from the item.
process_url_item_args(h, rq, i) ==
    LET it == rq.urls[i]
        w == query_params_copy(it.query_params, Fresh(rq, i))
    IN  [mediaflow_proxy_url |-> rq.mediaflow_proxy_url, endpoint |-> it.endpoint,
         destination_url |-> it.destination_url, query_params |-> h[w], qp_object |-> w,
         request_headers |-> it.request_headers, response_headers |-> it.response_headers,
         encryption_handler |-> encryption_handler(rq), expiration |-> rq.expiration,
         ip |-> ip_str(rq), filename |-> it.filename]

\* ------------------------------------------------------ generation: actions

N == Len(request.urls)

GenRequests ==
    { [kind |-> kd, mediaflow_proxy_url |-> ProxyUrl, api_password |-> pw,
       expiration |-> Expiration, ip |-> ip,
       urls |-> [i \in 1..n |-> Item(ts[i], i)]] :
        kd \in Kinds, pw \in Passwords, ip \in Ips,
        n \in 0..MaxItems, ts \in [1..MaxItems -> Targets] }

NoReply == [status |-> 0, location |-> <<>>, by |-> "-"]
NoRequest == [method |-> "GET", path |-> <<>>, host |-> <<>>, api_key |-> NoneV,
              api_key_alt |-> NoneV,
              token |-> "none"]

ReqIdle ==
    /\ settings = NoneV /\ req = NoRequest /\ stage = "idle" /\ normIn = <<>>
    /\ routed = <<>>
    /\ decoded = FALSE /\ verified = "none" /\ handled = <<>> /\ reply = NoReply
    /\ hops = 0

\* A callback in the loop's ready queue: the step of the request's task that enters
\* the handler, the first step of the task of item i, the done-callback gather put on
\* that task, the wakeup of generate_urls, or a callback that cancels the request's
\* task. The loop runs, in each iteration, the callbacks that were ready at its
\* start, first in first out; what they make ready waits for the next iteration.
Enter == [op |-> "enter", i |-> 0]
Step(i) == [op |-> "step", i |-> i]
Done(i) == [op |-> "done", i |-> i]
Wakeup == [op |-> "wakeup", i |-> 0]
CancelCall == [op |-> "cancel", i |-> 0]
Running(cb) == todo > 0 /\ ready /= <<>> /\ Head(ready) = cb

GenInit ==
    /\ ReqIdle
    /\ request \in { r \in GenRequests : Len(r.urls) \in ItemCounts(r.kind) }
    /\ heap \in [1..(2 * Len(request.urls)) -> QueryParams]
    /\ \A i \in 1..Len(request.urls) : heap[Len(request.urls) + i] = EmptyDict
    /\ gpc = "received"
    /\ validated = [i \in 1..Len(request.urls) |-> FALSE]
    /\ task = [i \in 1..Len(request.urls) |-> "none"]
    /\ taskResult = [i \in 1..Len(request.urls) |-> NoUrl]
    /\ encArgs = [i \in 1..Len(request.urls) |-> NoArgs]
    /\ outer = "none"
    /\ nonce = 0
    /\ inner = NoResponse
    /\ ready \in IF request.kind = "generate_urls"
                 THEN {<<Enter>>, <<CancelCall, Enter>>}
                 ELSE {<<>>}
    /\ todo = 0
    /\ nfinished = 0
    /\ cancelRequested = FALSE
    /\ mustCancel = [i \in 1..Len(request.urls) |-> FALSE]
    /\ handlerMustCancel = FALSE
    /\ cancelSent = (ready /= <<>> /\ Head(ready) = CancelCall)
    /\ response = NoResponse
    /\ request0 = request
    /\ heap0 = heap

\* FastAPI parses the body into the handler's model class before calling the handler:
\* every item is validated, and an invalid body is answered 422 without the handler.
ValidateBody ==
    /\ gpc = "received"
    /\ request.kind = "generate_urls" => (Running(Enter) /\ ~handlerMustCancel)
    /\ validated' = [i \in 1..N |-> TRUE]
    /\ IF \A i \in 1..N : ValidItem(request.urls[i])
       THEN gpc' = "handler" /\ UNCHANGED <<response, ready, todo>>
       ELSE /\ gpc' = "done"
            /\ response' = [status |-> "422", key |-> "-", value |-> <<>>]
            /\ IF request.kind = "generate_urls"
               THEN ready' = Tail(ready) /\ todo' = todo - 1
               ELSE UNCHANGED <<ready, todo>>
    /\ UNCHANGED <<request, heap, task, taskResult, encArgs, outer, nonce, inner,
                   nfinished, cancelRequested, mustCancel, handlerMustCancel, cancelSent,
                   request0, heap0, reqVars>>

\* Variant: a handler taking the raw body, entered without the validation.
HandlerUnparsed(kind) == gpc \in {"received", "handler"} /\ request.kind = kind
\* The handler is entered with the parsed, validated model object.
HandlerEntered(kind) == gpc = "handler" /\ request.kind = kind

\* One call generate_url(rq) on heap h with n nonces drawn so far: the heap and the
\* nonce count it leaves, the arguments it gave the encoder, and what it returns.
generate_url_call(h, rq, n) ==
    LET h2 == generate_url_query_params(h, rq)
        a == generate_url_args(h2, rq)
    IN  [heap |-> h2, args |-> a,
         nonce |-> IF Encodable(a) THEN n + NonceUse(a) ELSE n,
         response |-> IF Encodable(a)
                      THEN [status |-> "ok", key |-> "url",
                            value |-> <<encode_mediaflow_proxy_url(a, n + 1)>>]
                      ELSE [status |-> "raised", key |-> "-", value |-> <<>>]]

generate_url ==
    /\ HandlerEntered("generate_url")
    /\ LET c == generate_url_call(heap, request, nonce)
       IN  /\ heap' = c.heap
           /\ encArgs' = [encArgs EXCEPT ![1] = c.args]
           /\ nonce' = c.nonce
           /\ response' = c.response
    /\ gpc' = "done"
    /\ UNCHANGED <<request, validated, task, taskResult, outer, inner, loopVars,
                   request0, heap0, reqVars>>

\* Variant: the alias hands back generate_url's own answer, keyed "url".
alias_response_same_key(r) == r
\* Line 106: {"encoded_url": (await generate_url(request))["url"]}; an exception of
\* the inner call propagates.
alias_response(r) ==
    IF r.status = "ok"
    THEN [status |-> "ok", key |-> "encoded_url", value |-> <<r.value[1]>>]
    ELSE r

generate_encrypted_or_encoded_url ==
    /\ HandlerEntered("generate_encrypted_or_encoded_url")
    /\ LET c == generate_url_call(heap, request, nonce)
       IN  /\ heap' = c.heap
           /\ encArgs' = [encArgs EXCEPT ![1] = c.args]
           /\ nonce' = c.nonce
           /\ inner' = c.response
           /\ response' = alias_response(c.response)
    /\ gpc' = "done"
    /\ UNCHANGED <<request, validated, task, taskResult, outer, loopVars,
                   request0, heap0, reqVars>>

\* Variant gather(*tasks, return_exceptions=True): a failed child is one more result.
gather_return_exceptions(o, child, nfin, n, creq) ==
    IF o /= "pending" THEN o
    ELSE IF nfin = n THEN (IF creq THEN "cancelled" ELSE "result")
    ELSE "pending"
\* asyncio.gather(*tasks), _done_callback of a child: the outer future, o, after the
\* callback of a child that ended as `child`, nfin callbacks having run of n. The
\* first cancelled or failed child ends the outer future with that exception
\* ("cancelled" is CancelledError); the last callback ends it with the results, or
\* with CancelledError when the gather was asked to cancel.
gather_done_callback(o, child, nfin, n, creq) ==
    IF o /= "pending" THEN o
    ELSE IF child = "cancelled" THEN "cancelled"
    ELSE IF child = "failed" THEN "exception"
    ELSE IF nfin = n THEN (IF creq THEN "cancelled" ELSE "result")
    ELSE "pending"

\* Variant: the result list built back to front.
gather_results_reversed(tr) == [k \in DOMAIN tr |-> tr[Len(tr) + 1 - k]]
\* The result list of gather: one entry per awaitable, in the order they were passed.
gather_results(tr) == [k \in DOMAIN tr |-> tr[k]]

\* Lines 147-148 and 168-169 up to the await, the first step of the handler: the
\* coroutines are created in item order and gather makes a task of each, whose first
\* steps are queued in that order. gather() of no awaitable returns a finished
\* future, which the await does not suspend on: the handler returns at once.
generate_urls_start ==
    /\ HandlerEntered("generate_urls")
    /\ Running(Enter) /\ ~handlerMustCancel
    /\ todo' = todo - 1
    /\ IF N = 0
       THEN /\ outer' = "result"
            /\ response' = [status |-> "ok", key |-> "urls",
                            value |-> gather_results(taskResult)]
            /\ gpc' = "done"
            /\ ready' = Tail(ready)
            /\ UNCHANGED task
       ELSE /\ task' = [i \in 1..N |-> "pending"]
            /\ ready' = Tail(ready) \o [i \in 1..N |-> Step(i)]
            /\ outer' = "pending"
            /\ gpc' = "awaiting"
            /\ UNCHANGED response
    /\ UNCHANGED <<request, heap, validated, taskResult, encArgs, nonce, inner,
                   nfinished, cancelRequested, mustCancel, handlerMustCancel, cancelSent,
                   request0, heap0, reqVars>>

\* The first step of the task of item i. The coroutine has no await: it runs to its
\* end in this step, or, when the task is marked, ends cancelled before its first
\* line, the step taking the mark off the task as it raises CancelledError in it.
\* The task's done-callback is queued.
process_url_item(i) ==
    /\ Running(Step(i))
    /\ todo' = todo - 1
    /\ ready' = Append(Tail(ready), Done(i))
    /\ IF mustCancel[i]
       THEN /\ task' = [task EXCEPT ![i] = "cancelled"]
            /\ mustCancel' = [mustCancel EXCEPT ![i] = FALSE]
            /\ UNCHANGED <<heap, encArgs, taskResult, nonce>>
       ELSE LET h2 == process_url_item_query_params(heap, request, i)
                a == process_url_item_args(h2, request, i)
            IN  /\ heap' = h2
                /\ encArgs' = [encArgs EXCEPT ![i] = a]
                /\ task' = [task EXCEPT ![i] = IF Encodable(a) THEN "done" ELSE "failed"]
                /\ IF Encodable(a)
                   THEN /\ taskResult' = [taskResult EXCEPT
                                            ![i] = encode_mediaflow_proxy_url(a, nonce + 1)]
                        /\ nonce' = nonce + NonceUse(a)
                   ELSE UNCHANGED <<taskResult, nonce>>
                /\ UNCHANGED mustCancel
    /\ UNCHANGED <<request, gpc, validated, outer, inner, nfinished, cancelRequested,
                   handlerMustCancel, cancelSent, response, request0, heap0, reqVars>>

\* gather's done-callback of the task of item i, run in a later turn of the loop than
\* the task's step; when it ends the outer future the wakeup of the handler is queued.
gather_child_done(i) ==
    /\ Running(Done(i))
    /\ todo' = todo - 1
    /\ nfinished' = nfinished + 1
    /\ outer' = gather_done_callback(outer, task[i], nfinished + 1, N, cancelRequested)
    /\ ready' = IF outer = "pending" /\ outer' /= "pending"
                THEN Append(Tail(ready), Wakeup)
                ELSE Tail(ready)
    /\ UNCHANGED <<request, heap, gpc, validated, task, taskResult, encArgs, nonce, inner,
                   cancelRequested, mustCancel, handlerMustCancel, cancelSent, response,
                   request0, heap0, reqVars>>

\* Lines 169-170, the handler woken up: a handler marked to be cancelled raises
\* CancelledError, the step taking the mark off its task; otherwise the await gives the result list or raises the exception
\* of the outer future.
generate_urls_return ==
    /\ Running(Wakeup)
    /\ gpc = "awaiting"
    /\ todo' = todo - 1
    /\ ready' = Tail(ready)
    /\ response' = IF handlerMustCancel \/ outer = "cancelled"
                   THEN [status |-> "cancelled", key |-> "-", value |-> <<>>]
                   ELSE IF outer = "result"
                   THEN [status |-> "ok", key |-> "urls",
                         value |-> gather_results(taskResult)]
                   ELSE [status |-> "raised", key |-> "-", value |-> <<>>]
    /\ gpc' = "done"
    /\ handlerMustCancel' = FALSE
    /\ UNCHANGED <<request, heap, validated, task, taskResult, encArgs, outer, nonce,
                   inner, nfinished, cancelRequested, mustCancel, cancelSent, request0,
                   heap0, reqVars>>

\* _run_once of the loop: an iteration starts when the last has run its callbacks,
\* and will run the callbacks that are ready now.
run_once ==
    /\ todo = 0 /\ ready /= <<>>
    /\ todo' = Len(ready)
    /\ UNCHANGED <<request, heap, gpc, validated, task, taskResult, encArgs, outer, nonce,
                   inner, ready, nfinished, cancelRequested, mustCancel,
                   handlerMustCancel, cancelSent, response, request0, heap0, reqVars>>

\* Between two iterations an event (a disconnect, a shutdown) makes ready a callback
\* that will cancel the request's task.
request_cancel ==
    /\ request.kind = "generate_urls"
    /\ todo = 0 /\ ready /= <<>>
    /\ ~cancelSent
    /\ cancelSent' = TRUE
    /\ ready' = Append(ready, CancelCall)
    /\ UNCHANGED <<request, heap, gpc, validated, task, taskResult, encArgs, outer, nonce,
                   inner, todo, nfinished, cancelRequested, mustCancel, handlerMustCancel,
                   response, request0, heap0, reqVars>>

\* task.cancel() on the request's task. A task that has not reached the handler is
\* marked. A handler awaiting a pending gather passes the request on: the children
\* that have not finished are marked, and so is the gather; when no child takes it,
\* or the outer future has ended, the handler itself is marked and raises when it is
\* woken up. A finished handler ignores it.
cancel_generate_urls ==
    /\ Running(CancelCall)
    /\ todo' = todo - 1
    /\ ready' = Tail(ready)
    /\ IF gpc = "awaiting" /\ outer = "pending" /\ \E i \in 1..N : task[i] = "pending"
       THEN /\ mustCancel' = [i \in 1..N |-> mustCancel[i] \/ task[i] = "pending"]
            /\ cancelRequested' = TRUE
            /\ UNCHANGED handlerMustCancel
       ELSE /\ handlerMustCancel' = (handlerMustCancel \/ gpc /= "done")
            /\ UNCHANGED <<mustCancel, cancelRequested>>
    /\ UNCHANGED <<request, heap, gpc, validated, task, taskResult, encArgs, outer, nonce,
                   inner, nfinished, cancelSent, response, request0, heap0, reqVars>>

\* The step of a marked request task: CancelledError is raised in it before the body
\* is parsed and before the handler is called, and the mark is taken off the task.
request_task_cancelled ==
    /\ request.kind = "generate_urls"
    /\ gpc = "received"
    /\ Running(Enter) /\ handlerMustCancel
    /\ todo' = todo - 1
    /\ ready' = Tail(ready)
    /\ gpc' = "done"
    /\ response' = [status |-> "cancelled", key |-> "-", value |-> <<>>]
    /\ handlerMustCancel' = FALSE
    /\ UNCHANGED <<request, heap, validated, task, taskResult, encArgs, outer, nonce,
                   inner, nfinished, cancelRequested, mustCancel, cancelSent, request0,
                   heap0, reqVars>>

GenNext ==
    \/ ValidateBody
    \/ generate_url
    \/ generate_encrypted_or_encoded_url
    \/ generate_urls_start
    \/ \E i \in 1..N : process_url_item(i)
    \/ \E i \in 1..N : gather_child_done(i)
    \/ generate_urls_return
    \/ run_once
    \/ request_cancel
    \/ cancel_generate_urls
    \/ request_task_cancelled

SpecGen == GenInit /\ [][GenNext]_vars

\* ------------------------------------------------------ generation: claims

IsBatch == request.kind = "generate_urls"
Called(i) == encArgs[i] /= NoArgs
\* The caller's query_params of item i, as they were when the call started.
CallerParams(i) == heap0[request0.urls[i].query_params]
SharedPassword == request0.api_password

\* C3: a batch whose items all encode, and which is not cancelled, returns exactly one
\* URL per item, and the URL at index i is the one the coroutine of item i built from
\* item i.
C3_IndexAligned ==
    /\ (IsBatch /\ gpc = "done" /\ response.status /= "cancelled"
          /\ \A i \in 1..N : task[i] = "done")
       => response.status = "ok"
    /\ (IsBatch /\ response.status = "ok")
       => /\ response.key = "urls"
          /\ Len(response.value) = N
          /\ \A i \in 1..N :
               /\ response.value[i] = taskResult[i]
               /\ response.value[i].endpoint = request0.urls[i].endpoint
               /\ response.value[i].destination_url = request0.urls[i].destination_url
               /\ \A x \in ParamKeys \ {ApiPasswordKey} :
                    response.value[i].query_params[x] = CallerParams(i)[x]
               /\ CallerParams(i)[ApiPasswordKey] /= Absent
                    => response.value[i].query_params = CallerParams(i)

\* C3 witness: a list was returned for two items with different parameters, a
\* cancellation having been requested too late to stop the call.
C3_Witness ==
    /\ IsBatch /\ N >= 2 /\ response.status = "ok"
    /\ cancelSent
    /\ CallerParams(1) /= CallerParams(2)

\* C4: a batch in which an item failed validation or encoding, or whose call was
\* cancelled, returns no URL list; a returned list holds a URL for every item.
C4_AllOrNothing ==
    IsBatch =>
      /\ ( \/ \E i \in 1..N : ~ValidItem(request0.urls[i])
           \/ \E i \in 1..N : task[i] \in {"failed", "cancelled"}
           \/ outer = "cancelled" \/ cancelRequested \/ handlerMustCancel )
         => (response.status /= "ok" /\ response.value = <<>>)
      /\ response.status = "ok"
         => /\ Len(response.value) = N
            /\ \A i \in 1..N : task[i] = "done" /\ response.value[i] /= NoUrl

\* C4 witness: one item was encoded, another failed, and the call ended raising.
C4_WitnessFailure ==
    /\ IsBatch /\ gpc = "done" /\ response.status = "raised"
    /\ \E i, j \in 1..N : task[i] = "done" /\ task[j] = "failed"

\* C5 as stated: the encoder's parameters hold the shared password under api_password
\* exactly when the caller's did not hold the key and the shared password is non-empty.
C5_AsStated ==
    \A i \in 1..N : Called(i) =>
       ( encArgs[i].query_params[ApiPasswordKey] = SharedPassword
         <=> ( CallerParams(i)[ApiPasswordKey] = Absent /\ SharedPassword /= NoneV
               /\ SharedPassword /= "" ) )

\* C5 amended: the encoder's parameters hold the shared password under api_password
\* exactly when it was injected (key absent, shared password non-empty) or the
\* caller's own value for the key equals it; a value the caller set is kept, the key
\* stays absent when nothing is injected, and every other parameter passes through.
C5_InjectionRule ==
    \A i \in 1..N : Called(i) =>
       LET d0 == CallerParams(i)
           d == encArgs[i].query_params
           inject == d0[ApiPasswordKey] = Absent /\ SharedPassword /= NoneV
                     /\ SharedPassword /= ""
       IN  /\ d[ApiPasswordKey] = SharedPassword
                <=> (inject \/ d0[ApiPasswordKey] = SharedPassword)
           /\ d0[ApiPasswordKey] /= Absent => d[ApiPasswordKey] = d0[ApiPasswordKey]
           /\ (d0[ApiPasswordKey] = Absent /\ ~inject) => d[ApiPasswordKey] = Absent
           /\ \A x \in ParamKeys \ {ApiPasswordKey} : d[x] = d0[x]

\* C5 witness: in one batch the password was injected for one item and the caller's
\* own empty value was kept for another.
C5_Witness ==
    /\ IsBatch /\ N >= 2
    /\ \E i, j \in 1..N :
         /\ Called(i) /\ CallerParams(i)[ApiPasswordKey] = Absent
         /\ encArgs[i].query_params[ApiPasswordKey] = "pw"
         /\ Called(j) /\ CallerParams(j)[ApiPasswordKey] = ""
         /\ encArgs[j].query_params[ApiPasswordKey] = ""

\* C6: the deprecated alias gives the encoder the arguments generate_url gives it for
\* the same request, fails exactly when generate_url fails, and on success answers
\* under encoded_url the value generate_url returned under url.
C6_AliasEquivalent ==
    (request.kind = "generate_encrypted_or_encoded_url" /\ gpc = "done"
       /\ response.status /= "422")
    => LET ref == generate_url_call(heap0, request0, 0)
       IN  /\ encArgs[1] = ref.args
           /\ response.status = ref.response.status
           /\ inner = ref.response
           /\ response.status = "ok"
                => /\ response.key = "encoded_url"
                   /\ ref.response.key = "url"
                   /\ response.value = inner.value
                   /\ response.value = ref.response.value

\* C6 witness: the alias answered with a sealed URL.
C6_Witness ==
    /\ request.kind = "generate_encrypted_or_encoded_url"
    /\ response.status = "ok" /\ response.key = "encoded_url"
    /\ response.value[1].sealed

\* C7: in a batch call, no item's token is encoded (nor its encode call made) before
\* every item of the batch has been validated.
C7_ValidatedBeforeEncoding ==
    IsBatch =>
      \A i \in 1..N : (Called(i) \/ task[i] /= "none" \/ taskResult[i] /= NoUrl)
                         => \A j \in 1..N : validated[j]

\* C7 witness: one token is encoded while another item's coroutine is still pending.
C7_Witness ==
    /\ IsBatch
    /\ \E i, j \in 1..N : task[i] = "done" /\ taskResult[i] /= NoUrl /\ task[j] = "pending"

\* C9: the request object and the dict objects it owns hold what they held when the
\* call started; the encoder is given a dict object that is not the caller's.
C9_NoMutation ==
    /\ request = request0
    /\ \A i \in 1..N : heap[request.urls[i].query_params] = CallerParams(i)
    /\ \A i \in 1..N : Called(i) =>
         \A j \in 1..N : encArgs[i].qp_object /= request.urls[j].query_params

\* C9 witness: a finished batch in which the password was injected into a copy.
C9_Witness ==
    /\ IsBatch /\ gpc = "done" /\ N >= 2
    /\ \E i \in 1..N :
         /\ Called(i)
         /\ CallerParams(i)[ApiPasswordKey] = Absent
         /\ heap[encArgs[i].qp_object][ApiPasswordKey] = "pw"

\* --------------------------------------------------- request pipeline: data

\* Strings the path code works on are sequences of characters.
Slash == <<"/">>
ProxyWord == <<"p", "r", "o", "x", "y">>
HostName == <<"h">>
QueryMark == <<"?">>
Scheme == <<"h", "t", "t", "p", ":", "/", "/">>
\* The pieces request paths are built from. A path segment may spell the host name;
\* a "?" of scope["path"] was sent percent-encoded.
Pieces == {Slash, ProxyWord, HostName, QueryMark}

RECURSIVE Concat(_)
Concat(ps) == IF ps = <<>> THEN <<>> ELSE Head(ps) \o Concat(Tail(ps))

\* The paths of the routes FastAPI() declares (line 35) and of those main.py declares
\* itself (lines 81, 86, 91), the Locations its handlers redirect to (lines 88, 93),
\* and the prefix of a router.
OpenapiPath == <<"/", "o", "p", "e", "n", "a", "p", "i", ".", "j", "s", "o", "n">>
DocsPath == <<"/", "d", "o", "c", "s">>
DocsRedirectPath == DocsPath \o <<"/", "o", "a", "u", "t", "h", "2", "-", "r", "e", "d", "i", "r", "e", "c", "t">>
RedocPath == <<"/", "r", "e", "d", "o", "c">>
HealthPath == <<"/", "h", "e", "a", "l", "t", "h">>
FaviconPath == <<"/", "f", "a", "v", "i", "c", "o", "n", ".", "i", "c", "o">>
SpeedtestPath == <<"/", "s", "p", "e", "e", "d", "t", "e", "s", "t">>
LogoLocation == <<"/", "l", "o", "g", "o", ".", "p", "n", "g">>
SpeedtestLocation == SpeedtestPath \o <<".", "h", "t", "m", "l">>
ExtractorPath == <<"/", "e", "x", "t", "r", "a", "c", "t", "o", "r">>

\* scope["path"] of the requests: a slash followed by fewer than MaxPieces pieces, or
\* one of the declared paths, alone, behind a second leading slash, or followed by a
\* segment, or a path whose runs of slashes lie around the router prefix or behind a
\* "#" that was sent percent-encoded.
Paths ==
    { Slash \o Concat(ps) : ps \in UNION { [1..n -> Pieces] : n \in 0..(MaxPieces - 1) } }
    \cup { OpenapiPath, DocsPath, DocsRedirectPath, RedocPath,
           HealthPath, FaviconPath, SpeedtestPath, Slash \o SpeedtestPath,
           SpeedtestPath \o Slash \o HostName, ExtractorPath \o Slash \o HostName,
           Slash \o Slash \o ProxyWord \o Slash \o Slash,
           Slash \o Slash \o ProxyWord \o Slash \o Slash \o HostName,
           Slash \o ProxyWord \o QueryMark \o Slash \o Slash \o HostName,
           Slash \o HostName \o <<"#">> \o Slash \o Slash \o HostName,
           Slash \o Slash \o HostName \o <<"#">>,
           Slash \o HostName \o QueryMark \o <<"#">> \o HostName,
           Slash \o HostName \o QueryMark \o HostName \o <<"#">> }

\* The requests are GET requests and CORS preflights (OPTIONS with Origin and
\* Access-Control-Request-Method).
Methods == {"GET", "OPTIONS"}
Credentials == {NoneV, "", "pw", "bad"}
HeaderCredentials == {NoneV, "", "pw", "bad"}
ConfiguredPasswords == {NoneV, "", "pw"}
\* The token embedded in the request, by what decoding it comes to.
Tokens == {"none", "valid", "Malformed", "AuthenticationFailed", "Expired", "IpMismatch"}

\* str.startswith
StartsWith(s, pre) == Len(s) >= Len(pre) /\ SubSeq(s, 1, Len(pre)) = pre

\* "//" in path
HasDoubleSlash(p) == \E i \in 1..(Len(p) - 1) : p[i] = "/" /\ p[i + 1] = "/"

\* re.sub(r"/{2,}", "/", path)
RECURSIVE CollapseSlashes(_)
CollapseSlashes(p) ==
    IF Len(p) < 2 THEN p
    ELSE IF p[1] = "/" /\ p[2] = "/" THEN CollapseSlashes(Tail(p))
    ELSE <<p[1]>> \o CollapseSlashes(Tail(p))

\* re.sub(r"^/+", "/", path)
RECURSIVE StripLeadingSlashes(_)
StripLeadingSlashes(p) ==
    IF p /= <<>> /\ p[1] = "/" THEN StripLeadingSlashes(Tail(p)) ELSE p
CollapseLeadingSlashes(p) ==
    IF p /= <<>> /\ p[1] = "/" THEN Slash \o StripLeadingSlashes(p) ELSE p

\* str.replace(old, new): every non-overlapping occurrence, left to right.
RECURSIVE Replace(_, _, _)
Replace(s, old, new) ==
    IF Len(s) < Len(old) THEN s
    ELSE IF SubSeq(s, 1, Len(old)) = old
         THEN new \o Replace(SubSeq(s, Len(old) + 1, Len(s)), old, new)
    ELSE <<s[1]>> \o Replace(Tail(s), old, new)

\* str(request.url) up to the query string: scheme, host and scope path, the path
\* as it is in the scope, not quoted again. The query string of the request, which
\* holds the query credential and the token, follows it behind a "?".
request_url(r) == Scheme \o r.host \o r.path

\* urlsplit: the path ends at the first "?" or "#".
RECURSIVE UpToQuery(_)
UpToQuery(s) ==
    IF s = <<>> \/ s[1] \in {"?", "#"} THEN <<>> ELSE <<s[1]>> \o UpToQuery(Tail(s))
\* urlsplit: the authority ends at the first "/", "?" or "#".
RECURSIVE AfterAuthority(_)
AfterAuthority(s) ==
    IF s = <<>> \/ s[1] \in {"/", "?", "#"} THEN s ELSE AfterAuthority(Tail(s))
\* c in s
Contains(s, c) == \E i \in 1..Len(s) : s[i] = c
\* str.split("#", 1): what precedes the first "#", and what follows it.
RECURSIVE BeforeHash(_)
BeforeHash(s) ==
    IF s = <<>> \/ s[1] = "#" THEN <<>> ELSE <<s[1]>> \o BeforeHash(Tail(s))
AfterHash(s) == SubSeq(s, Len(BeforeHash(s)) + 2, Len(s))

\* URL(...).path, the path urlsplit gives of a URL string: with or without the
\* scheme, a leading "//" opens the authority and the path is what follows it;
\* the path ends at the first "?" or "#".
url_path(u) ==
    LET rest == IF StartsWith(u, SubSeq(Scheme, 1, 5)) THEN SubSeq(u, 6, Len(u)) ELSE u
    IN  IF StartsWith(rest, <<"/", "/">>)
        THEN UpToQuery(AfterAuthority(SubSeq(rest, 3, Len(rest))))
        ELSE UpToQuery(rest)

\* urlunsplit, as URL.replace(path=...) rebuilds a URL: the query and the fragment
\* of the URL whose path is followed by `rest`, and then by the request's query
\* string when it has one; an empty query or fragment is left out with its mark.
\* The result stops short of the request's query string, as request_url does.
geturl_query(rest, has_query_string) ==
    LET hash == Contains(rest, "#")
        before == BeforeHash(rest)
        query == IF before = <<>> THEN <<>> ELSE Tail(before)
        fragment == AfterHash(rest)
        query_kept == query /= <<>> \/ (~hash /\ before /= <<>> /\ has_query_string)
        fragment_kept == hash /\ (fragment /= <<>> \/ has_query_string)
    IN  (IF query_kept THEN QueryMark \o query ELSE <<>>)
        \o (IF fragment_kept THEN <<"#">> \o fragment ELSE <<>>)

\* ------------------------------------------------ request pipeline: layers

\* The middlewares in the order main.py registers them (lines 38, 42, 53, 62, 69,
\* 70, 197) when the module is imported as the ASGI application; line 197 comes
\* after the __main__ guard and is registered like the others on import.
Registered == << "NormalizePathMiddleware", "redirect_double_slash", "log_path",
                 "CORSMiddleware", "EncryptionMiddleware", "UIAccessControlMiddleware",
                 "force_fix_double_slash_path" >>

\* add_middleware puts each middleware in front of those registered before it: the
\* last one registered is the outermost, the first one sits next to the router.
Reverse(q) == [i \in 1..Len(q) |-> q[Len(q) + 1 - i]]
Stack == Reverse(Registered)

IndexOf(layer) == CHOOSE i \in 1..Len(Stack) : Stack[i] = layer
\* call_next of a middleware: the next layer inwards, the router after the last.
call_next(layer) ==
    IF IndexOf(layer) = Len(Stack) THEN "router" ELSE Stack[IndexOf(layer) + 1]

\* APIKeyQuery / APIKeyHeader with auto_error=False: a missing or empty value is None.
APIKey(x) == IF Truthy(x) THEN x ELSE NoneV

\* Variant without lines 74-75: no open mode.
verify_api_key_no_open_mode(api_key, api_key_alt, password) ==
    IF api_key = password \/ api_key_alt = password THEN "ok" ELSE "403"
\* Variant of line 76 with `and`: both channels must match.
verify_api_key_both_channels(api_key, api_key_alt, password) ==
    IF ~Truthy(password) THEN "ok"
    ELSE IF api_key = password /\ api_key_alt = password THEN "ok"
    ELSE "403"
\* verify_api_key, lines 73-78.
verify_api_key(api_key, api_key_alt, password) ==
    IF ~Truthy(password) THEN "ok"
    ELSE IF api_key = password \/ api_key_alt = password THEN "ok"
    ELSE "403"

\* Line 35: the routes FastAPI() declares itself, with the default openapi_url,
\* docs_url, swagger_ui_oauth2_redirect_url and redoc_url; they are the first of the
\* route table.
is_fastapi_route(path) == path \in {OpenapiPath, DocsPath, DocsRedirectPath, RedocPath}
\* Lines 81, 86, 91: the GET routes main.py declares on the application, which
\* come before the included routers and the mount in the route table.
is_app_route(path) ==
    is_fastapi_route(path) \/ path \in {HealthPath, FaviconPath, SpeedtestPath}

\* Lines 174-176: the prefixes the three routers are included under.
IncludedPrefixes == { Slash \o ProxyWord, ExtractorPath, SpeedtestPath }
\* A path a route of an included router can have: the prefix followed by the route's
\* own path, which may be empty and need not start with a slash.
in_included_router(path) ==
    \E pre \in IncludedPrefixes : StartsWith(path, pre)

\* The parameters of the query string: the query credential and the token.
QueryParameters(r) ==
    (IF r.api_key /= NoneV THEN {"api_password"} ELSE {})
    \cup (IF r.token /= "none" THEN {"token"} ELSE {})
\* The parameters a redirect loses. The Location of a middleware and of the mount is
\* the request's URL, rewritten, with its query string behind it: a "#" that came
\* with the path turns the query string into a fragment, a "?" that came with the
\* path runs into the name of the first parameter. The Location of a handler is a
\* path of its own.
LostParameters(r, rp) ==
    IF rp.by \in {"get_favicon", "show_speedtest_page"} \/ Contains(rp.location, "#")
    THEN {QueryParameters(r)}
    ELSE IF Contains(rp.location, "?") /\ QueryParameters(r) /= {}
    THEN {{q} : q \in QueryParameters(r)}
    ELSE {{}}

\* Variant: the routers included without dependencies.
no_dependencies == {}
\* Lines 174-176: dependencies=[Depends(verify_api_key)] on each included router.
include_router_dependencies == {"verify_api_key"}

\* ------------------------------------------------ request pipeline: actions

GenIdle ==
    /\ request = [kind |-> "none", mediaflow_proxy_url |-> ProxyUrl, api_password |-> NoneV,
                  expiration |-> Expiration, ip |-> NoneV, urls |-> <<>>]
    /\ heap = <<>> /\ gpc = "idle" /\ validated = <<>> /\ task = <<>>
    /\ taskResult = <<>> /\ encArgs = <<>> /\ outer = "none" /\ nonce = 0
    /\ inner = NoResponse /\ response = NoResponse
    /\ ready = <<>> /\ todo = 0 /\ nfinished = 0 /\ cancelRequested = FALSE /\ mustCancel = <<>>
    /\ handlerMustCancel = FALSE /\ cancelSent = FALSE
    /\ request0 = request /\ heap0 = heap

ReqInit ==
    /\ GenIdle
    /\ settings \in ConfiguredPasswords
    /\ req \in [method : Methods, path : Paths, host : {HostName}, api_key : Credentials,
                api_key_alt : HeaderCredentials, token : Tokens]
    /\ stage = Stack[1]
    /\ normIn = <<>>
    /\ routed = <<>>
    /\ decoded = FALSE
    /\ verified = "none"
    /\ handled = <<>>
    /\ reply = NoReply
    /\ hops = 0

Redirect(url, by) == [status |-> 307, location |-> url, by |-> by]
Answer(st, by) == [status |-> st, location |-> <<>>, by |-> by]

\* Lines 197-208. Only the leading slashes are collapsed, and the replacement runs
\* over the whole URL string.
force_fix_double_slash_path ==
    /\ stage = "force_fix_double_slash_path"
    /\ LET raw_path == req.path
           fixed_path == CollapseLeadingSlashes(raw_path)
           fixed_url == Replace(request_url(req), raw_path, fixed_path)
       IN  IF StartsWith(raw_path, Slash \o Slash \o ProxyWord)
           THEN /\ reply' = Redirect(fixed_url, "force_fix_double_slash_path")
                /\ stage' = "done"
           ELSE /\ stage' = call_next("force_fix_double_slash_path")
                /\ UNCHANGED reply
    /\ UNCHANGED <<settings, req, normIn, routed, decoded, verified, handled, hops, genVars>>

\* Line 70. The middleware calls on, or answers the request itself with the
\* forbidden signal; which requests it lets through is its own business.
UIAccessControlMiddleware ==
    /\ stage = "UIAccessControlMiddleware"
    /\ \/ /\ stage' = call_next("UIAccessControlMiddleware")
          /\ UNCHANGED reply
       \/ /\ reply' = Answer(403, "UIAccessControlMiddleware")
          /\ stage' = "done"
    /\ UNCHANGED <<settings, req, normIn, routed, decoded, verified, handled, hops, genVars>>

\* Line 69. EncryptionMiddleware decodes the token embedded in the request and
\* answers itself a token it rejects: the bad-request signal for a malformed one,
\* the forbidden signal for one that fails authentication, is expired, or is bound
\* to another address.
EncryptionMiddleware ==
    /\ stage = "EncryptionMiddleware"
    /\ IF req.token \in {"none", "valid"}
       THEN /\ decoded' = (req.token = "valid")
            /\ stage' = call_next("EncryptionMiddleware")
            /\ UNCHANGED reply
       ELSE /\ reply' = Answer(IF req.token = "Malformed" THEN 400 ELSE 403,
                               "EncryptionMiddleware")
            /\ stage' = "done"
            /\ UNCHANGED decoded
    /\ UNCHANGED <<settings, req, normIn, routed, verified, handled, hops, genVars>>

\* Lines 62-68. CORSMiddleware answers a preflight itself, 200 or, for a requested
\* method that is none of the standard ones, 400; any other request is called on.
CORSMiddleware ==
    /\ stage = "CORSMiddleware"
    /\ IF req.method = "OPTIONS"
       THEN /\ \E st \in {200, 400} : reply' = Answer(st, "CORSMiddleware")
            /\ stage' = "done"
       ELSE /\ stage' = call_next("CORSMiddleware")
            /\ UNCHANGED reply
    /\ UNCHANGED <<settings, req, normIn, routed, decoded, verified, handled, hops, genVars>>

\* Lines 53-57: prints the path and calls on.
log_path ==
    /\ stage = "log_path"
    /\ stage' = call_next("log_path")
    /\ UNCHANGED <<settings, req, normIn, routed, decoded, verified, handled, reply, hops,
                   genVars>>

\* Variant with lines 45-48 commented out: the middleware only calls on.
redirect_double_slash_disabled ==
    /\ stage = "redirect_double_slash"
    /\ stage' = call_next("redirect_double_slash")
    /\ UNCHANGED <<settings, req, normIn, routed, decoded, verified, handled, reply, hops,
                   genVars>>
\* Lines 42-49. The path tested is request.url.path, which ends where scope["path"]
\* has a "?" or a "#".
redirect_double_slash ==
    /\ stage = "redirect_double_slash"
    /\ LET path == url_path(request_url(req))
           new_path == CollapseSlashes(path)
           new_url == Replace(request_url(req), path, new_path)
       IN  IF HasDoubleSlash(path)
           THEN /\ reply' = Redirect(new_url, "redirect_double_slash")
                /\ stage' = "done"
           ELSE /\ stage' = call_next("redirect_double_slash")
                /\ UNCHANGED reply
    /\ UNCHANGED <<settings, req, normIn, routed, decoded, verified, handled, hops, genVars>>

\* Lines 24-32. The rewritten path is put into a copy of the scope, given to a new
\* Request; call_next of BaseHTTPMiddleware passes on either the scope of the request
\* it is given or the scope the middleware was called with, by the release of
\* Starlette, so the router gets the normalized or the original path.
NormalizePathMiddleware ==
    /\ stage = "NormalizePathMiddleware"
    /\ normIn' = Append(normIn, req.path)
    /\ LET original_path == req.path
           normalized_path == CollapseSlashes(original_path)
       IN  \E seen \in {original_path, normalized_path} : routed' = seen
    /\ stage' = call_next("NormalizePathMiddleware")
    /\ UNCHANGED <<settings, req, decoded, verified, handled, reply, hops, genVars>>

\* Line 35: the schema and the documentation pages FastAPI() serves.
fastapi_docs ==
    /\ stage = "router"
    /\ is_fastapi_route(routed)
    /\ handled' = Append(handled, routed)
    /\ reply' = Answer(200, "fastapi_docs")
    /\ stage' = "done"
    /\ UNCHANGED <<settings, req, normIn, routed, decoded, verified, hops, genVars>>

\* Lines 81-83.
health_check ==
    /\ stage = "router"
    /\ routed = HealthPath
    /\ handled' = Append(handled, routed)
    /\ reply' = Answer(200, "health_check")
    /\ stage' = "done"
    /\ UNCHANGED <<settings, req, normIn, routed, decoded, verified, hops, genVars>>

\* Lines 86-88.
get_favicon ==
    /\ stage = "router"
    /\ routed = FaviconPath
    /\ handled' = Append(handled, routed)
    /\ reply' = Redirect(LogoLocation, "get_favicon")
    /\ stage' = "done"
    /\ UNCHANGED <<settings, req, normIn, routed, decoded, verified, hops, genVars>>

\* Lines 91-93.
show_speedtest_page ==
    /\ stage = "router"
    /\ routed = SpeedtestPath
    /\ handled' = Append(handled, routed)
    /\ reply' = Redirect(SpeedtestLocation, "show_speedtest_page")
    /\ stage' = "done"
    /\ UNCHANGED <<settings, req, normIn, routed, decoded, verified, hops, genVars>>

\* Lines 174-176: the path matches a route of an included router, whose dependencies
\* run before its handler. Which paths under a prefix the router has a route for is
\* the router's own business: any of them may match, or fall through to the mount.
include_router ==
    /\ stage = "router"
    /\ ~is_app_route(routed)
    /\ in_included_router(routed)
    /\ stage' = IF "verify_api_key" \in include_router_dependencies
                THEN "verify_api_key" ELSE "handler"
    /\ UNCHANGED <<settings, req, normIn, routed, decoded, verified, handled, reply, hops,
                   genVars>>

\* Lines 179-180: the mount at "/" takes every path no route before it matched, with
\* no dependency. StaticFiles(html=True) answers 200 with a file, 404 without one,
\* and, for a directory holding an index page asked for without the final slash,
\* 307 to the URL rebuilt with a slash appended to its path.
StaticFiles ==
    /\ stage = "router"
    /\ ~is_app_route(routed)
    /\ handled' = Append(handled, routed)
    /\ \/ \E st \in {200, 404} : reply' = Answer(st, "StaticFiles")
       \/ /\ routed[Len(routed)] /= "/"
          /\ LET path == url_path(Scheme \o req.host \o routed)
                 rest == SubSeq(routed, Len(path) + 1, Len(routed))
                 query == geturl_query(rest, QueryParameters(req) /= {})
             IN  reply' = Redirect(Scheme \o req.host \o path \o Slash \o query,
                                   "StaticFiles")
    /\ stage' = "done"
    /\ UNCHANGED <<settings, req, normIn, routed, decoded, verified, hops, genVars>>

\* The dependency of the included routers: 403 ends the request.
check_api_key ==
    /\ stage = "verify_api_key"
    /\ LET v == verify_api_key(APIKey(req.api_key), APIKey(req.api_key_alt), settings)
       IN  /\ verified' = v
           /\ IF v = "ok"
              THEN stage' = "handler" /\ UNCHANGED reply
              ELSE /\ stage' = "done"
                   /\ reply' = Answer(403, "verify_api_key")
    /\ UNCHANGED <<settings, req, normIn, routed, decoded, handled, hops, genVars>>

\* The route handler of an included router.
dispatch ==
    /\ stage = "handler"
    /\ handled' = Append(handled, routed)
    /\ reply' = Answer(200, "router")
    /\ stage' = "done"
    /\ UNCHANGED <<settings, req, normIn, routed, decoded, verified, hops, genVars>>

\* The client follows a 307: the same method and headers, sent to the path and the
\* query of the Location.
follow_redirect ==
    /\ stage = "done"
    /\ reply.status = 307
    /\ hops < MaxHops
    /\ \E lost \in LostParameters(req, reply) :
           req' = [req EXCEPT !.path = url_path(reply.location),
                              !.api_key = IF "api_password" \in lost THEN NoneV ELSE @,
                              !.token = IF "token" \in lost THEN "none" ELSE @]
    /\ stage' = Stack[1]
    /\ normIn' = <<>>
    /\ routed' = <<>>
    /\ decoded' = FALSE
    /\ verified' = "none"
    /\ handled' = <<>>
    /\ reply' = NoReply
    /\ hops' = hops + 1
    /\ UNCHANGED <<settings, genVars>>

ReqNext ==
    \/ force_fix_double_slash_path
    \/ UIAccessControlMiddleware
    \/ EncryptionMiddleware
    \/ CORSMiddleware
    \/ log_path
    \/ redirect_double_slash
    \/ NormalizePathMiddleware
    \/ fastapi_docs
    \/ health_check
    \/ get_favicon
    \/ show_speedtest_page
    \/ include_router
    \/ StaticFiles
    \/ check_api_key
    \/ dispatch
    \/ follow_redirect

SpecReq == ReqInit /\ [][ReqNext]_vars

\* ------------------------------------------------- request pipeline: claims

OpenMode == settings = NoneV \/ settings = ""
\* The request reached the handler of a route of an included router.
RouterHandled == stage = "handler" \/ reply.by = "router"
RedirectingMiddlewares == {"force_fix_double_slash_path", "redirect_double_slash"}
\* The layers outside redirect_double_slash that can answer a request themselves.
AnsweringMiddlewares ==
    {"UIAccessControlMiddleware", "EncryptionMiddleware", "CORSMiddleware"}
\* request.url.path of the request.
UrlPath == url_path(request_url(req))

\* C1: with an empty configured password verify_api_key authorizes every request,
\* whatever the two credentials are, and never raises its 403.
C1_OpenModeAuthorizes ==
    OpenMode => /\ verified /= "403"
                /\ reply.by /= "verify_api_key"
                /\ RouterHandled => verified = "ok"

\* C1 witness: open mode, no credential in either channel, the check has authorized.
C1_Witness ==
    /\ settings = "" /\ req.api_key = NoneV /\ req.api_key_alt = NoneV
    /\ verified = "ok"

\* C2: with a non-empty configured password the check authorizes exactly the requests
\* whose query or header credential equals the password, and answers the others 403.
C2_AuthorizedIffMatch ==
    (~OpenMode /\ verified /= "none")
    => /\ verified = "ok" <=> (req.api_key = settings \/ req.api_key_alt = settings)
       /\ verified = "403"
          => /\ reply = Answer(403, "verify_api_key")
             /\ stage = "done" /\ handled = <<>>
       /\ RouterHandled => verified = "ok"

\* C2 witness: the query credential is wrong, the header credential matches.
C2_Witness ==
    /\ settings = "pw" /\ req.api_key = "bad" /\ req.api_key_alt = "pw"
    /\ verified = "ok"

\* C8 as stated: for a request to a route of an included router, the token has not
\* been decoded when the credential check runs, and a denied request never has its
\* token decoded.
C8_AsStated ==
    /\ stage = "verify_api_key" => ~decoded
    /\ verified = "403" => ~decoded

\* C8 amended: EncryptionMiddleware has dealt with the token by the time
\* verify_api_key runs (also for a request that is then denied); the handler of a
\* route of an included router is dispatched only after a successful check, and a
\* denied request never reaches it.
C8_DecodeThenVerifyThenHandler ==
    /\ verified /= "none" => (decoded <=> req.token = "valid")
    /\ stage \in {"router", "verify_api_key", "handler"} => (decoded <=> req.token = "valid")
    /\ RouterHandled => verified = "ok"
    /\ verified = "403" => (handled = <<>> /\ reply.status = 403)

\* C8 witness: a request with a token was decoded and then denied by the check.
C8_Witness ==
    /\ in_included_router(routed)
    /\ req.token = "valid" /\ decoded /\ verified = "403" /\ reply.status = 403

====
